---- MODULE Spec2Model ----
(***************************************************************************)
(* A model of src/run.py: the chunked put / get / delete pipelines of      *)
(* FileStorageSystem, its two id allocators, the memory admission monitor  *)
(* (threading.Condition over a re-entrant lock), the worker-pool calls     *)
(* save_file / read_file / delete_file and the parts directory.            *)
(*                                                                         *)
(* One thread is spawned per accepted command (accept_commands); a thread  *)
(* moves through the labels of its handler.  A step is one stretch of the  *)
(* handler between two points where another thread can observe or change   *)
(* shared state.  A bounded acquire (timeout=5) succeeds when the lock is   *)
(* free (or, for the re-entrant monitor lock, owned by the caller) and      *)
(* times out when another thread owns it.                                  *)
(*                                                                         *)
(* Every put names its own source path, so the destination of a get (the   *)
(* file's name) is written by gets of that file only; what each get wrote  *)
(* is kept per get.                                                        *)
(***************************************************************************)
EXTENDS Integers, Sequences, FiniteSets, TLC

\* ---------------------------------------------------------------- bounds
MaxCommands == 3      \* commands accepted in one run, one thread each
MaxRunning == 2       \* handlers running at the same time
MaxChunks == 3        \* chunks of part_size bytes in all the sources of a run
MaxFileId == 1        \* get / delete name a file id in 0..MaxFileId
MaxDepth == 2         \* depths of the monitor lock told apart: this and deeper count as one
MaxFaults == 1        \* injected faults: save error, remove failure, corruption

\* ------------------------------------------------------ program constants
\* set_constants; one unit of part_size stands for the 1024 bytes of a part
\* and a batch is 2 parts instead of 10.
part_size == 1
batch_size == 2
needed_memory == part_size * batch_size

\* load_config: the values of max_memory * 1024 * 1024, scaled to the units
\* above: room for one batch reservation, and for two.
MemoryLimits == {needed_memory + 1, 2 * needed_memory + 1}

NoThread == 0         \* a lock nobody owns
NoSource == -1        \* a put whose source cannot be opened
NoHash == <<>>        \* FilePart(..., None, ...)

Threads == 1..MaxCommands
FileIds == 0..MaxFileId

VARIABLES
  memory_limit,                          \* load_config
  pc, cmd, result,                       \* each thread: label, command, outcome
  file_next_id, file_id_lock, files,     \* FileRegistry
  part_next_id, part_id_lock, parts,     \* FilePartRegistry
  memory_usage, mc_owner, mc_count,      \* memory_usage, memory_condition's RLock
  disk,                                  \* parts directory: path -> stored bytes
  fid, index, file_finished, locked_memory, batch, saved, written, del_result,
  held, all_ok, faults,                  \* history: reservations held, removes ok
  file_ids_issued, part_ids_issued       \* history: ids handed out, in order

registry == <<file_next_id, file_id_lock, files, part_next_id, part_id_lock, parts>>
monitor == <<memory_usage, mc_owner, mc_count>>
locals == <<fid, index, file_finished, locked_memory, batch, saved, written, del_result>>
history == <<held, all_ok, faults, file_ids_issued, part_ids_issued>>
vars == <<memory_limit, pc, cmd, result, registry, monitor, disk, locals, history>>

\* ------------------------------------------------------------ pure parts
\* The chunks reader.read(part_size) returns for the source of thread t's put.
Source(t, n) == [k \in 1..n |-> 10 * t + k]

\* FilePart.path
Path(parent_id, idx) == <<parent_id, idx>>

Compress(data) == <<"zlib", data>>
Decompress(stored) == stored[2]
MD5(data) == <<"md5", data>>

\* save_file: what is written at the path, and the digest returned.
save_file_stored(data) == Compress(data)
save_file_md5(data) == MD5(data)

\* read_file on the stored bytes: (ok, data).
read_file(expected_md5, stored) ==
  LET decompressed == Decompress(stored)
  IN IF MD5(decompressed) # expected_md5
       THEN [ok |-> FALSE, data |-> NoHash]
       ELSE [ok |-> TRUE, data |-> decompressed]

File(id, name, status, n) ==
  [id |-> id, name |-> name, status |-> status, part_count |-> n]

FilePart(id, parent_id, hash, status, idx) ==
  [id |-> id, parent_id |-> parent_id, hash |-> hash, status |-> status, index |-> idx]

\* The predicate without the amount asked for.
MemoryAvailable_M(usage) == usage < memory_limit

\* The predicate of memory_condition.wait_for.
MemoryAvailable(usage) == usage + needed_memory < memory_limit

\* The counter is read and not advanced.
NextId_M(n) == n

\* next_id += 1
NextId(n) == n + 1

Min(a, b) == IF a < b THEN a ELSE b

\* ------------------------------------------------------------- the monitor
\* memory_condition.acquire(blocking=True, timeout=5) by t succeeds.
MonitorFree(t) == mc_owner \in {NoThread, t}

\* acquire; memory_usage += d; release: the lock ends as it began.
MonitorAdd(t, d) ==
  /\ memory_usage' = memory_usage + d
  /\ UNCHANGED <<mc_owner, mc_count>>

Init ==
  /\ memory_limit \in MemoryLimits
  /\ pc = [t \in Threads |-> "idle"]
  /\ cmd = [t \in Threads |-> [op |-> "none", arg |-> 0]]
  /\ result = [t \in Threads |-> "none"]
  /\ file_next_id = 0 /\ file_id_lock = NoThread /\ files = <<>>
  /\ part_next_id = 0 /\ part_id_lock = NoThread /\ parts = <<>>
  /\ memory_usage = 0 /\ mc_owner = NoThread /\ mc_count = 0
  /\ disk = <<>>
  /\ fid = [t \in Threads |-> 0]
  /\ index = [t \in Threads |-> 0]
  /\ file_finished = [t \in Threads |-> FALSE]
  /\ locked_memory = [t \in Threads |-> FALSE]
  /\ batch = [t \in Threads |-> <<>>]
  /\ saved = [t \in Threads |-> 0]
  /\ written = [t \in Threads |-> <<>>]
  /\ del_result = [t \in Threads |-> <<>>]
  /\ held = [t \in Threads |-> 0]
  /\ all_ok = [t \in Threads |-> TRUE]
  /\ faults = 0
  /\ file_ids_issued = <<>> /\ part_ids_issued = <<>>

RECURSIVE ChunksPut(_)
\* The chunks in the sources of the puts accepted as threads 1..t.
ChunksPut(t) ==
  IF t = 0 THEN 0
  ELSE ChunksPut(t - 1)
         + (IF cmd[t].op = "put" /\ cmd[t].arg # NoSource THEN cmd[t].arg ELSE 0)

\* The command lines thread t can be started on.
Commands(t) ==
  [op : {"put"}, arg : {NoSource} \cup (0..(MaxChunks - ChunksPut(t - 1)))]
    \cup [op : {"get", "delete"}, arg : FileIds]
    \cup [op : {"list"}, arg : {0}]

FirstLabel(op) ==
  CASE op = "put" -> "put_idlock"
    [] op = "get" -> "get_exists"
    [] op = "delete" -> "del_exists"
    [] op = "list" -> "list_files"

\* accept_commands: the next command line starts a thread on its handler,
\* fewer than n handlers being under way.
Admit(t, n) ==
  /\ pc[t] = "idle"
  /\ IF t = 1 THEN TRUE ELSE pc[t - 1] # "idle"
  /\ Cardinality({u \in Threads : pc[u] \notin {"idle", "done"}}) < n
  /\ \E c \in Commands(t) :
       /\ cmd' = [cmd EXCEPT ![t] = c]
       /\ pc' = [pc EXCEPT ![t] = FirstLabel(c.op)]
  /\ UNCHANGED <<memory_limit, result, registry, monitor, disk, locals, history>>

\* At most MaxRunning handlers run at the same time.
Accept(t) == Admit(t, MaxRunning)

\* Every accepted command may run at the same time as the others.
AcceptWide(t) == Admit(t, MaxCommands)

Return(t, outcome) ==
  /\ pc' = [pc EXCEPT ![t] = "done"]
  /\ result' = [result EXCEPT ![t] = outcome]

Goto(t, label) ==
  /\ pc' = [pc EXCEPT ![t] = label]
  /\ UNCHANGED result

\* ------------------------------------------------------------------- put
\* handle_put_command: file_registry.id_lock.acquire(timeout=5)
Put_FileIdLock(t) ==
  /\ pc[t] = "put_idlock"
  /\ IF file_id_lock = NoThread
       THEN /\ file_id_lock' = t
            /\ Goto(t, "put_newfile")
       ELSE /\ Return(t, "file_id_lock_timeout")
            /\ UNCHANGED file_id_lock
  /\ UNCHANGED <<memory_limit, cmd, file_next_id, files, part_next_id, part_id_lock, parts,
                 monitor, disk, locals, history>>

\* file id, release, File(file_id, file_name, False, 0), open, parts[file_id] = []
Put_NewFile(t) ==
  /\ pc[t] = "put_newfile"
  /\ file_next_id' = NextId(file_next_id)
  /\ file_id_lock' = NoThread
  /\ file_ids_issued' = Append(file_ids_issued, file_next_id)
  /\ fid' = [fid EXCEPT ![t] = file_next_id]
  /\ files' = (file_next_id :> File(file_next_id, t, FALSE, 0)) @@ files
  /\ index' = [index EXCEPT ![t] = 0]
  /\ file_finished' = [file_finished EXCEPT ![t] = FALSE]
  /\ IF cmd[t].arg = NoSource
       THEN /\ Goto(t, "put_except")
            /\ UNCHANGED parts
       ELSE /\ Goto(t, "put_reserve")
            /\ parts' = (file_next_id :> <<>>) @@ parts
  /\ UNCHANGED <<memory_limit, cmd, part_next_id, part_id_lock, monitor, disk, locked_memory,
                 batch, saved, written, del_result, held, all_ok, faults,
                 part_ids_issued>>


\* One iteration of the reserve loop from its top (put lines 122-131, get
\* lines 215-224) for a thread that gets the monitor lock: the reservation is
\* granted, or the thread enters wait_for's wait, which gives up the lock at
\* every depth and remembers the depth (what follows depends only on whether
\* the depth is 0, 1 or more: depths from MaxDepth on are kept as MaxDepth).
\* A thread that does not get the lock within the timeout starts the
\* iteration again: no step.
Reserve(t, granted, waiting) ==
  /\ MonitorFree(t)
  /\ IF MemoryAvailable(memory_usage)
       THEN /\ MonitorAdd(t, needed_memory)
            /\ locked_memory' = [locked_memory EXCEPT ![t] = TRUE]
            /\ held' = [held EXCEPT ![t] = @ + 1]
            /\ Goto(t, granted)
            /\ UNCHANGED saved
       ELSE /\ saved' = [saved EXCEPT ![t] = Min(mc_count + 1, MaxDepth)]
            /\ mc_owner' = NoThread
            /\ mc_count' = 0
            /\ Goto(t, waiting)
            /\ UNCHANGED <<memory_usage, locked_memory, held>>

\* The depth the lock is left at by "memory_usage += needed_memory; release()"
\* after wait_for returned with the lock re-acquired at depth d.
DepthAfterGrant(d) == d - 1

\* wait_for wakes (notified or timed out) and re-acquires the lock, blocking,
\* at the remembered depth; the predicate is evaluated again.  True: the
\* reservation is granted and release() gives up one level.  False and the
\* timeout has expired: wait_for returns False and the loop continues with
\* the lock still held.
Wait(t, granted, retry) ==
  /\ mc_owner = NoThread
  /\ IF MemoryAvailable(memory_usage)
       THEN /\ memory_usage' = memory_usage + needed_memory
            /\ mc_count' = DepthAfterGrant(saved[t])
            /\ mc_owner' = IF DepthAfterGrant(saved[t]) = 0 THEN NoThread ELSE t
            /\ locked_memory' = [locked_memory EXCEPT ![t] = TRUE]
            /\ held' = [held EXCEPT ![t] = @ + 1]
            /\ Goto(t, granted)
       ELSE /\ mc_owner' = t
            /\ mc_count' = saved[t]
            /\ Goto(t, retry)
            /\ UNCHANGED <<memory_usage, locked_memory, held>>
  /\ saved' = [saved EXCEPT ![t] = 0]

\* "acquire the monitor, memory_usage -= needed_memory, notify_all, release",
\* or nothing when the acquire times out.
ReleaseOrTimeout(t) ==
  IF MonitorFree(t)
    THEN /\ MonitorAdd(t, -needed_memory)
         /\ held' = [held EXCEPT ![t] = @ - 1]
    ELSE UNCHANGED <<monitor, held>>

\* while not file_finished: ... memory_usage += needed_memory (lines 122-133)
Put_Reserve(t) ==
  /\ pc[t] = "put_reserve"
  /\ Reserve(t, "put_partlock", "put_wait")
  /\ batch' = [batch EXCEPT ![t] = <<>>]
  /\ UNCHANGED <<memory_limit, cmd, registry, disk, fid, index, file_finished, written,
                 del_result, all_ok, faults, file_ids_issued, part_ids_issued>>

Put_Wait(t) ==
  /\ pc[t] = "put_wait"
  /\ Wait(t, "put_partlock", "put_reserve")
  /\ batch' = [batch EXCEPT ![t] = <<>>]
  /\ UNCHANGED <<memory_limit, cmd, registry, disk, fid, index, file_finished, written,
                 del_result, all_ok, faults, file_ids_issued, part_ids_issued>>

\* for i in range(batch_size): file_part_registry.id_lock.acquire(timeout=5)
Put_PartIdLock(t) ==
  /\ pc[t] = "put_partlock"
  /\ IF part_id_lock = NoThread
       THEN /\ part_id_lock' = t
            /\ Goto(t, "put_part")
       ELSE /\ Goto(t, "put_abort")
            /\ UNCHANGED part_id_lock
  /\ UNCHANGED <<memory_limit, cmd, file_next_id, file_id_lock, files, part_next_id, parts,
                 monitor, disk, locals, history>>

\* The part id lock timed out: release the batch's memory and return, or
\* return with it when the monitor cannot be acquired (lines 138-146).
Put_Abort(t) ==
  /\ pc[t] = "put_abort"
  /\ ReleaseOrTimeout(t)
  /\ locked_memory' = [locked_memory EXCEPT ![t] = ~MonitorFree(t)]
  /\ Return(t, "part_id_lock_timeout")
  /\ UNCHANGED <<memory_limit, cmd, registry, disk, fid, index, file_finished, batch, saved,
                 written, del_result, all_ok, faults, file_ids_issued,
                 part_ids_issued>>

\* The position in the batch is taken for the position in the file.
PartIndex_M(idx, i) == i

\* The index of the FilePart made of the chunk read as item i of its batch,
\* the put having read idx chunks before it: FilePart(..., index)
PartIndex(idx, i) == idx

\* part id, release, reader.read(part_size); end of stream ends the batch,
\* a chunk becomes a FilePart appended to the sequence and staged
\* (lines 147-162).
Put_Part(t) ==
  /\ pc[t] = "put_part"
  /\ part_next_id' = NextId(part_next_id)
  /\ part_id_lock' = NoThread
  /\ part_ids_issued' = Append(part_ids_issued, part_next_id)
  /\ IF index[t] >= cmd[t].arg
       THEN /\ file_finished' = [file_finished EXCEPT ![t] = TRUE]
            /\ Goto(t, "put_save")
            /\ UNCHANGED <<parts, index, batch>>
       ELSE /\ parts' = [parts EXCEPT ![fid[t]] =
                  Append(@, FilePart(part_next_id, fid[t], NoHash, FALSE,
                                      PartIndex(index[t], Len(batch[t]))))]
            /\ index' = [index EXCEPT ![t] = @ + 1]
            /\ batch' = [batch EXCEPT ![t] =
                  Append(@, [data |-> Source(t, cmd[t].arg)[index[t] + 1],
                             index |-> PartIndex(index[t], Len(batch[t]))])]
            /\ Goto(t, IF Len(batch[t]) + 1 = batch_size
                         THEN "put_save" ELSE "put_partlock")
            /\ UNCHANGED file_finished
  /\ UNCHANGED <<memory_limit, cmd, file_next_id, file_id_lock, files, monitor, disk, fid,
                 locked_memory, saved, written, del_result, held, all_ok,
                 faults, file_ids_issued>>

\* The parts directory after save_file has run on the staged items in W.
DiskAfterSave(t, W) ==
  [p \in DOMAIN disk \cup {Path(fid[t], batch[t][k].index) : k \in W} |->
     IF \E k \in W : p = Path(fid[t], batch[t][k].index)
       THEN LET k == CHOOSE k \in W : p = Path(fid[t], batch[t][k].index)
            IN save_file_stored(batch[t][k].data)
       ELSE disk[p]]

\* The results are stored at the positions of the batch, not of the file.
PartsAfterSave_M(t) ==
  [q \in 1..Len(parts[fid[t]]) |->
     IF q <= Len(batch[t])
       THEN [parts[fid[t]][q] EXCEPT !.hash = save_file_md5(batch[t][q].data),
                                     !.status = TRUE]
       ELSE parts[fid[t]][q]]

\* for i, part in enumerate(file_parts): hash = result[i]; status = True
PartsAfterSave(t) ==
  [q \in 1..Len(parts[fid[t]]) |->
     IF \E k \in 1..Len(batch[t]) : batch[t][k].index + 1 = q
       THEN LET k == CHOOSE k \in 1..Len(batch[t]) : batch[t][k].index + 1 = q
            IN [parts[fid[t]][q] EXCEPT !.hash = save_file_md5(batch[t][k].data),
                                        !.status = TRUE]
       ELSE parts[fid[t]][q]]

\* result = self.io.starmap(save_file, batch) and the loop over file_parts
\* (lines 164-168); a worker's I/O error raises out of starmap with any of
\* the items written.
Put_Save(t) ==
  /\ pc[t] = "put_save"
  /\ \/ /\ disk' = DiskAfterSave(t, 1..Len(batch[t]))
        /\ parts' = [parts EXCEPT ![fid[t]] = PartsAfterSave(t)]
        /\ Goto(t, "put_release")
        /\ UNCHANGED faults
     \/ /\ batch[t] # <<>>
        /\ faults < MaxFaults
        /\ faults' = faults + 1
        /\ \E W \in SUBSET (1..Len(batch[t])) :
             /\ W # 1..Len(batch[t])
             /\ disk' = DiskAfterSave(t, W)
        /\ Goto(t, "put_except")
        /\ UNCHANGED parts
  /\ UNCHANGED <<memory_limit, cmd, file_next_id, file_id_lock, files, part_next_id,
                 part_id_lock, monitor, locals, held, all_ok, file_ids_issued,
                 part_ids_issued>>

\* Release the batch's memory (lines 170-176); on a timeout of the acquire
\* the loop continues with locked_memory still set.  Then the loop test.
Put_Release(t) ==
  /\ pc[t] = "put_release"
  /\ ReleaseOrTimeout(t)
  /\ locked_memory' = [locked_memory EXCEPT ![t] = ~MonitorFree(t)]
  /\ Goto(t, IF file_finished[t] THEN "put_finish" ELSE "put_reserve")
  /\ UNCHANGED <<memory_limit, cmd, registry, disk, fid, index, file_finished, batch, saved,
                 written, del_result, all_ok, faults, file_ids_issued,
                 part_ids_issued>>

\* part_count = len(parts[file_id]); status = True (lines 178-180)
Put_Finish(t) ==
  /\ pc[t] = "put_finish"
  /\ files' = [files EXCEPT ![fid[t]].part_count = Len(parts[fid[t]]),
                            ![fid[t]].status = TRUE]
  /\ Return(t, "completed")
  /\ UNCHANGED <<memory_limit, cmd, file_next_id, file_id_lock, part_next_id, part_id_lock,
                 parts, monitor, disk, locals, history>>

\* The reservation is given back whether or not one is held.
Put_Except_M(t) ==
  /\ pc[t] = "put_except"
  /\ ReleaseOrTimeout(t)
  /\ Return(t, "failed")
  /\ UNCHANGED <<memory_limit, cmd, registry, disk, locals, all_ok, faults, file_ids_issued,
                 part_ids_issued>>

\* except Exception (lines 181-190)
Put_Except(t) ==
  /\ pc[t] = "put_except"
  /\ IF locked_memory[t] THEN ReleaseOrTimeout(t) ELSE UNCHANGED <<monitor, held>>
  /\ Return(t, "failed")
  /\ UNCHANGED <<memory_limit, cmd, registry, disk, locals, all_ok, faults, file_ids_issued,
                 part_ids_issued>>

\* ------------------------------------------------------------------- get
\* if file_id not in self.file_registry.files (lines 203-205)
Get_Exists(t) ==
  /\ pc[t] = "get_exists"
  /\ IF cmd[t].arg \in DOMAIN files
       THEN Goto(t, "get_status")
       ELSE Return(t, "not_found")
  /\ UNCHANGED <<memory_limit, cmd, registry, monitor, disk, locals, history>>

\* file = files[file_id], which raises out of the handler when the id has
\* been removed since; if not file.status; file_parts; open(file.name, "wb")
\* (lines 206-214)
Get_Status(t) ==
  /\ pc[t] = "get_status"
  /\ IF cmd[t].arg \notin DOMAIN files
       THEN /\ Return(t, "error")
            /\ UNCHANGED locals
       ELSE IF ~files[cmd[t].arg].status
         THEN /\ Return(t, "not_ready")
              /\ UNCHANGED locals
         ELSE /\ Goto(t, "get_reserve")
              /\ fid' = [fid EXCEPT ![t] = files[cmd[t].arg].id]
              /\ index' = [index EXCEPT ![t] = 0]
              /\ locked_memory' = [locked_memory EXCEPT ![t] = FALSE]
              /\ written' = [written EXCEPT ![t] = <<>>]
              /\ UNCHANGED <<file_finished, batch, saved, del_result>>
  /\ UNCHANGED <<memory_limit, cmd, registry, monitor, disk, history>>

\* The loop is entered once more when every part has been loaded.
GetLoopTest_M(idx, n) == idx * batch_size <= n

\* while index*batch_size < len(file_parts)
GetLoopTest(idx, n) == idx * batch_size < n

\* while index*batch_size < len(file_parts): ... memory_usage += needed_memory
\* (lines 215-224); file_parts is the registry's own list.
Get_Reserve(t) ==
  /\ pc[t] = "get_reserve"
  /\ IF GetLoopTest(index[t], Len(parts[fid[t]]))
       THEN Reserve(t, "get_load", "get_wait")
       ELSE /\ Return(t, "completed")
            /\ UNCHANGED <<monitor, locked_memory, saved, held>>
  /\ UNCHANGED <<memory_limit, cmd, registry, disk, fid, index, file_finished, batch, written,
                 del_result, all_ok, faults, file_ids_issued, part_ids_issued>>

Get_Wait(t) ==
  /\ pc[t] = "get_wait"
  /\ Wait(t, "get_load", "get_reserve")
  /\ UNCHANGED <<memory_limit, cmd, registry, disk, fid, index, file_finished, batch, written,
                 del_result, all_ok, faults, file_ids_issued, part_ids_issued>>

\* The slice starts one part late.
GetBatch_M(file_parts, idx) ==
  LET start == idx * batch_size + 1
      end == Min((idx + 1) * batch_size, Len(file_parts))
  IN [k \in 1..(IF end > start THEN end - start ELSE 0) |-> file_parts[start + k]]

\* file_parts[start:end] of the get's batch (lines 226-229)
GetBatch(file_parts, idx) ==
  LET start == idx * batch_size
      end == Min((idx + 1) * batch_size, Len(file_parts))
  IN [k \in 1..(IF end > start THEN end - start ELSE 0) |-> file_parts[start + k]]

\* self.io.starmap(read_file, batch), given that every path can be read.
LoadResults(b) ==
  [k \in 1..Len(b) |-> read_file(b[k].hash, disk[Path(b[k].parent_id, b[k].index)])]

RECURSIVE WrittenData_M(_, _)
\* A result that is not ok is skipped and the loop goes on.
WrittenData_M(res, k) ==
  IF k > Len(res) THEN <<>>
  ELSE (IF res[k].ok THEN <<res[k].data>> ELSE <<>>) \o WrittenData_M(res, k + 1)

RECURSIVE WrittenData(_, _)
\* for i, part in enumerate(result): what writer.write has received when the
\* loop ends or returns at the first result that is not ok (lines 234-246).
WrittenData(res, k) ==
  IF k > Len(res) \/ ~res[k].ok THEN <<>>
  ELSE <<res[k].data>> \o WrittenData(res, k + 1)

\* The batch is built, loaded and written (lines 226-246): read_file raises
\* out of starmap when a stored part is missing; a hash mismatch ends the
\* writing and the get.
Get_Load(t) ==
  /\ pc[t] = "get_load"
  /\ LET b == GetBatch(parts[fid[t]], index[t])
     IN /\ index' = [index EXCEPT ![t] = @ + 1]
        /\ IF \E k \in 1..Len(b) : Path(b[k].parent_id, b[k].index) \notin DOMAIN disk
             THEN /\ Goto(t, "get_except")
                  /\ UNCHANGED written
             ELSE /\ written' = [written EXCEPT ![t] = @ \o WrittenData(LoadResults(b), 1)]
                  /\ Goto(t, IF \E k \in 1..Len(b) : ~LoadResults(b)[k].ok
                               THEN "get_abort" ELSE "get_release")
  /\ UNCHANGED <<memory_limit, cmd, registry, monitor, disk, fid, file_finished, locked_memory,
                 batch, saved, del_result, history>>

\* MD5 hash mismatch: release and return, or return with the reservation when
\* the monitor cannot be acquired (lines 237-245).
Get_Abort(t) ==
  /\ pc[t] = "get_abort"
  /\ ReleaseOrTimeout(t)
  /\ locked_memory' = [locked_memory EXCEPT ![t] = ~MonitorFree(t)]
  /\ Return(t, "hash_mismatch")
  /\ UNCHANGED <<memory_limit, cmd, registry, disk, fid, index, file_finished, batch, saved,
                 written, del_result, all_ok, faults, file_ids_issued,
                 part_ids_issued>>

\* Release the batch's memory (lines 248-254), or continue on a timeout.
Get_Release(t) ==
  /\ pc[t] = "get_release"
  /\ ReleaseOrTimeout(t)
  /\ locked_memory' = [locked_memory EXCEPT ![t] = ~MonitorFree(t)]
  /\ Goto(t, "get_reserve")
  /\ UNCHANGED <<memory_limit, cmd, registry, disk, fid, index, file_finished, batch, saved,
                 written, del_result, all_ok, faults, file_ids_issued,
                 part_ids_issued>>

\* except Exception (lines 256-265)
Get_Except(t) ==
  /\ pc[t] = "get_except"
  /\ IF locked_memory[t] THEN ReleaseOrTimeout(t) ELSE UNCHANGED <<monitor, held>>
  /\ Return(t, "failed")
  /\ UNCHANGED <<memory_limit, cmd, registry, disk, locals, all_ok, faults, file_ids_issued,
                 part_ids_issued>>

\* ---------------------------------------------------------------- delete
\* if file_id not in self.file_registry.files (lines 277-279)
Del_Exists(t) ==
  /\ pc[t] = "del_exists"
  /\ IF cmd[t].arg \in DOMAIN files
       THEN Goto(t, "del_status")
       ELSE Return(t, "not_found")
  /\ UNCHANGED <<memory_limit, cmd, registry, monitor, disk, locals, history>>

\* The file is marked as being torn down before its status is looked at.
Del_Status_M(t) ==
  /\ pc[t] = "del_status"
  /\ IF cmd[t].arg \notin DOMAIN files
       THEN Return(t, "error") /\ UNCHANGED files
       ELSE /\ files' = [files EXCEPT ![cmd[t].arg].status = FALSE]
            /\ IF ~files[cmd[t].arg].status
                 THEN Return(t, "not_ready")
                 ELSE Goto(t, "del_mark")
  /\ fid' = [fid EXCEPT ![t] = cmd[t].arg]
  /\ UNCHANGED <<memory_limit, cmd, file_next_id, file_id_lock, part_next_id,
                 part_id_lock, parts, monitor, disk, index, file_finished,
                 locked_memory, batch, saved, written, del_result, history>>

\* file = files[file_id], which raises out of the handler when the id has
\* been removed since; if not file.status (lines 280-283)
Del_Status(t) ==
  /\ pc[t] = "del_status"
  /\ IF cmd[t].arg \notin DOMAIN files
       THEN Return(t, "error")
       ELSE IF ~files[cmd[t].arg].status
         THEN Return(t, "not_ready")
         ELSE Goto(t, "del_mark")
  /\ fid' = [fid EXCEPT ![t] = cmd[t].arg]
  /\ UNCHANGED <<memory_limit, cmd, registry, monitor, disk, index, file_finished,
                 locked_memory, batch, saved, written, del_result, history>>

\* The delete starts one batch low.
FirstDeleteBatch_M(n) == n \div batch_size - 1

\* The batch a delete starts with: index = len(file_parts) // batch_size
FirstDeleteBatch(n) == n \div batch_size

\* The file's status is left as it is.
Del_Mark_M(t) ==
  /\ pc[t] = "del_mark"
  /\ IF fid[t] \notin DOMAIN files
       THEN /\ Return(t, "error")
            /\ UNCHANGED index
       ELSE /\ index' = [index EXCEPT ![t] = FirstDeleteBatch(Len(parts[fid[t]]))]
            /\ Goto(t, IF FirstDeleteBatch(Len(parts[fid[t]])) >= 0
                         THEN "del_remove" ELSE "del_finish")
  /\ UNCHANGED <<memory_limit, cmd, registry, monitor, disk, fid, file_finished,
                 locked_memory, batch, saved, written, del_result, history>>

\* files[file_id].status = False, which raises out of the handler when the id
\* has been removed since; file_parts; index; while index >= 0 (lines 284-288)
Del_Mark(t) ==
  /\ pc[t] = "del_mark"
  /\ IF fid[t] \notin DOMAIN files
       THEN /\ Return(t, "error")
            /\ UNCHANGED <<files, index>>
       ELSE /\ files' = [files EXCEPT ![fid[t]].status = FALSE]
            /\ index' = [index EXCEPT ![t] = FirstDeleteBatch(Len(parts[fid[t]]))]
            /\ Goto(t, IF FirstDeleteBatch(Len(parts[fid[t]])) >= 0
                         THEN "del_remove" ELSE "del_finish")
  /\ UNCHANGED <<memory_limit, cmd, file_next_id, file_id_lock, part_next_id, part_id_lock,
                 parts, monitor, disk, fid, file_finished, locked_memory, batch,
                 saved, written, del_result, history>>

\* The positions (from 1) of the delete's batch: file_parts[start:end]
DeleteBatch(file_parts, idx) ==
  LET start == idx * batch_size
      end == Min((idx + 1) * batch_size, Len(file_parts))
  IN [k \in 1..(IF end > start THEN end - start ELSE 0) |-> start + k]

\* The batch's paths are built, its parts marked status = False and
\* self.io.map(delete_file, batch) run (lines 289-295): delete_file returns
\* True and the part file is gone, or False when os.remove raises (the part
\* file is missing, or the remove fails: the items in F).
Del_Remove(t) ==
  /\ pc[t] = "del_remove"
  /\ LET b == DeleteBatch(parts[fid[t]], index[t])
         path(k) == Path(parts[fid[t]][b[k]].parent_id, parts[fid[t]][b[k]].index)
     IN \E F \in SUBSET (1..Len(b)) :
          /\ faults + Cardinality(F) <= MaxFaults
          /\ \A k \in F : path(k) \in DOMAIN disk
          /\ faults' = faults + Cardinality(F)
          /\ LET res == [k \in 1..Len(b) |-> path(k) \in DOMAIN disk /\ k \notin F]
                 gone == {path(k) : k \in {j \in 1..Len(b) : res[j]}}
             IN /\ del_result' = [del_result EXCEPT ![t] = res]
                /\ disk' = [p \in DOMAIN disk \ gone |-> disk[p]]
                /\ all_ok' = [all_ok EXCEPT ![t] = @ /\ \A k \in 1..Len(b) : res[k]]
          /\ parts' = [parts EXCEPT ![fid[t]] =
               [q \in 1..Len(@) |->
                  IF \E k \in 1..Len(b) : b[k] = q
                    THEN [@[q] EXCEPT !.status = FALSE] ELSE @[q]]]
  /\ Goto(t, "del_erase")
  /\ UNCHANGED <<memory_limit, cmd, file_next_id, file_id_lock, files, part_next_id,
                 part_id_lock, monitor, fid, index, file_finished, locked_memory,
                 batch, saved, written, held, file_ids_issued, part_ids_issued>>

\* The position (from 0) erased for result i of a batch of n results:
\* index * batch_size + len(result) - i - 1
ErasePosition(idx, n, i) == idx * batch_size + n - i - 1

RemoveAt(seq, pos) ==
  [q \in 1..(Len(seq) - 1) |-> IF q < pos THEN seq[q] ELSE seq[q + 1]]

RECURSIVE EraseEntries(_, _, _, _)
\* for i, delete_result in enumerate(result): if delete_result: del ...
\* (lines 296-300), from result i on: the sequence left, and whether every
\* del found its position.
EraseEntries(seq, res, idx, i) ==
  IF i >= Len(res) THEN [seq |-> seq, ok |-> TRUE]
  ELSE IF ~res[i + 1] THEN EraseEntries(seq, res, idx, i + 1)
  ELSE IF ErasePosition(idx, Len(res), i) >= Len(seq) THEN [seq |-> seq, ok |-> FALSE]
  ELSE EraseEntries(RemoveAt(seq, ErasePosition(idx, Len(res), i) + 1), res, idx, i + 1)

\* The entries are erased, index -= 1 and the loop test (lines 296-301, 288);
\* an IndexError is caught by the handler's except.
Del_Erase(t) ==
  /\ pc[t] = "del_erase"
  /\ LET e == EraseEntries(parts[fid[t]], del_result[t], index[t], 0)
     IN /\ parts' = [parts EXCEPT ![fid[t]] = e.seq]
        /\ IF ~e.ok
             THEN /\ Return(t, "failed")
                  /\ UNCHANGED index
             ELSE /\ index' = [index EXCEPT ![t] = @ - 1]
                  /\ Goto(t, IF index[t] - 1 >= 0 THEN "del_remove" ELSE "del_finish")
  /\ del_result' = [del_result EXCEPT ![t] = <<>>]
  /\ UNCHANGED <<memory_limit, cmd, file_next_id, file_id_lock, files, part_next_id,
                 part_id_lock, monitor, disk, fid, file_finished, locked_memory,
                 batch, saved, written, history>>

\* del self.file_registry.files[file_id] (line 302); a KeyError is caught.
Del_Finish(t) ==
  /\ pc[t] = "del_finish"
  /\ IF fid[t] \in DOMAIN files
       THEN /\ files' = [f \in DOMAIN files \ {fid[t]} |-> files[f]]
            /\ Return(t, "deleted")
       ELSE /\ Return(t, "failed")
            /\ UNCHANGED files
  /\ UNCHANGED <<memory_limit, cmd, file_next_id, file_id_lock, part_next_id, part_id_lock,
                 parts, monitor, disk, locals, history>>

\* ------------------------------------------------------------------ list
\* handle_list_command: the files' ids and names are printed (lines 305-307).
List_Files(t) ==
  /\ pc[t] = "list_files"
  /\ Return(t, "listed")
  /\ UNCHANGED <<memory_limit, cmd, registry, monitor, disk, locals, history>>

\* ----------------------------------------------------------- environment
\* The paths a get is about to load.
AboutToLoad ==
  {Path(cmd[t].arg, q - 1) :
     t \in {u \in Threads : pc[u] = "get_load"}, q \in 1..MaxChunks + 1}

\* A stored part's bytes are overwritten on disk with other compressed bytes;
\* its recorded digest stays.  Only a load observes the stored bytes, so the
\* overwriting is taken at the latest moment: before a load of the part.
CorruptPart ==
  /\ faults < MaxFaults
  /\ faults' = faults + 1
  /\ \E p \in DOMAIN disk \cap AboutToLoad :
       /\ disk[p] # Compress(0)
       /\ disk' = [disk EXCEPT ![p] = Compress(0)]
  /\ UNCHANGED <<memory_limit, pc, cmd, result, registry, monitor, locals, held, all_ok,
                 file_ids_issued, part_ids_issued>>

\* A step of thread t's handler.
Step(t) ==
  \/ Put_FileIdLock(t)
  \/ Put_NewFile(t)
  \/ Put_Reserve(t)
  \/ Put_Wait(t)
  \/ Put_PartIdLock(t)
  \/ Put_Abort(t)
  \/ Put_Part(t)
  \/ Put_Save(t)
  \/ Put_Release(t)
  \/ Put_Finish(t)
  \/ Put_Except(t)
  \/ Get_Exists(t)
  \/ Get_Status(t)
  \/ Get_Reserve(t)
  \/ Get_Wait(t)
  \/ Get_Load(t)
  \/ Get_Abort(t)
  \/ Get_Release(t)
  \/ Get_Except(t)
  \/ Del_Exists(t)
  \/ Del_Status(t)
  \/ Del_Mark(t)
  \/ Del_Remove(t)
  \/ Del_Erase(t)
  \/ Del_Finish(t)
  \/ List_Files(t)

Next ==
  \/ \E t \in Threads : Accept(t)
  \/ \E t \in Threads : Step(t)
  \/ CorruptPart

Spec == Init /\ [][Next]_vars

NextWide ==
  \/ \E t \in Threads : AcceptWide(t)
  \/ \E t \in Threads : Step(t)
  \/ CorruptPart

SpecWide == Init /\ [][NextWide]_vars

\* ------------------------------------------------------------------ claims
Running(t) == pc[t] \notin {"idle", "done"}

RECURSIVE Reserved(_)
\* The bytes of the reservations granted to threads 1..t and not released.
Reserved(t) == IF t = 0 THEN 0 ELSE Reserved(t - 1) + held[t] * part_size * batch_size

\* C1: memory_usage stays strictly below memory_limit, the reservations granted
\* and not yet released never add up to more than memory_limit, and
\* memory_usage grows only by one batch reservation, granted when
\* memory_usage + part_size * batch_size < memory_limit.
C1_MemoryBound ==
  /\ [](memory_usage < memory_limit /\ Reserved(MaxCommands) <= memory_limit)
  /\ [][memory_usage' > memory_usage =>
         /\ memory_usage + part_size * batch_size < memory_limit
         /\ memory_usage' = memory_usage + part_size * batch_size]_vars

\* A thread waits for memory while another holds a reservation that leaves no
\* room for one more.
C1_Witness ==
  \E t, u \in Threads :
    /\ pc[t] \in {"put_wait", "get_wait"}
    /\ held[u] >= 1
    /\ ~(memory_usage + part_size * batch_size < memory_limit)

\* C2: a put or get that has returned holds no reservation, so memory_usage
\* is 0 whenever no put or get is running.
C2_NoBudgetLeak ==
  /\ \A t \in Threads : pc[t] = "done" => held[t] = 0
  /\ (\A t \in Threads : ~Running(t)) => memory_usage = 0

\* A delete of file f has set its status to False.
DeleteRan(f) ==
  \E u \in Threads :
    /\ cmd[u] = [op |-> "delete", arg |-> f]
    /\ \/ pc[u] \in {"del_remove", "del_erase", "del_finish"}
       \/ pc[u] = "done" /\ result[u] \in {"deleted", "failed"}

\* The puts that have been given a file id.
HasFileId(t) ==
  /\ cmd[t].op = "put"
  /\ pc[t] \notin {"idle", "put_idlock", "put_newfile"}
  /\ result[t] # "file_id_lock_timeout"

\* The chunks of the source that was put as file f.
SourceOf(f) ==
  LET u == CHOOSE u \in Threads : HasFileId(u) /\ fid[u] = f
  IN Source(u, cmd[u].arg)

\* C3: a get that ran to the end on a file no delete has touched wrote the
\* chunks of the put's source, in order.
C3_RoundTrip ==
  \A t \in Threads :
    (/\ cmd[t].op = "get" /\ pc[t] = "done" /\ result[t] = "completed"
     /\ ~DeleteRan(cmd[t].arg))
      => written[t] = SourceOf(cmd[t].arg)

\* A get has written a file of more than one batch, the last one short.
C3_Witness ==
  \E t \in Threads :
    /\ cmd[t].op = "get" /\ pc[t] = "done" /\ result[t] = "completed"
    /\ ~DeleteRan(cmd[t].arg)
    /\ Len(written[t]) > batch_size
    /\ Len(written[t]) % batch_size # 0

\* C4: each allocator has handed out 0, 1, 2, ... in this order, no two puts
\* hold the same file id and no two parts the same part id.
C4_IdsUnique ==
  /\ file_ids_issued = [k \in 1..Len(file_ids_issued) |-> k - 1]
  /\ part_ids_issued = [k \in 1..Len(part_ids_issued) |-> k - 1]
  /\ \A t, u \in Threads : (t # u /\ HasFileId(t) /\ HasFileId(u)) => fid[t] # fid[u]
  /\ \A f, g \in DOMAIN parts : \A i \in 1..Len(parts[f]) : \A j \in 1..Len(parts[g]) :
       (f # g \/ i # j) => parts[f][i].id # parts[g][j].id

\* A put has been given a file id after the file with the id before it was
\* deleted, and holds parts.
C4_Witness ==
  /\ file_ids_issued = <<0, 1>>
  /\ 0 \notin DOMAIN files
  /\ 1 \in DOMAIN parts /\ Len(parts[1]) >= 1
  /\ \E t \in Threads : result[t] = "deleted"

\* C5: every part of a file of status True has status True and a hash.
C5_CompleteFileParts ==
  \A f \in DOMAIN files :
    files[f].status =>
      \A i \in 1..Len(parts[f]) : parts[f][i].status /\ parts[f][i].hash # NoHash

\* A file of more than one batch is complete.
C5_Witness ==
  \E f \in DOMAIN files : files[f].status /\ Len(parts[f]) > batch_size

\* C6: the part sequence of a file of status True has part_count parts, the
\* part at position p of index p.
C6_IndexContiguity ==
  \A f \in DOMAIN files :
    files[f].status =>
      /\ Len(parts[f]) = files[f].part_count
      /\ \A p \in 0..(files[f].part_count - 1) : parts[f][p + 1].index = p

\* A file whose source ends on a batch boundary is complete, and so is one of
\* more than a batch.
C6_Witness ==
  /\ \E f \in DOMAIN files : files[f].status /\ files[f].part_count = batch_size
  /\ \E t \in Threads : cmd[t].op = "put" /\ cmd[t].arg = batch_size
                          /\ result[t] = "completed"

\* C7: after a delete that ran to the end with every remove succeeding, the
\* file id is not in the File Registry, its part sequence is empty and no
\* stored part of the file is left.
C7_DeleteComplete ==
  \A t \in Threads :
    (cmd[t].op = "delete" /\ pc[t] = "done" /\ result[t] = "deleted" /\ all_ok[t])
      => /\ cmd[t].arg \notin DOMAIN files
         /\ parts[cmd[t].arg] = <<>>
         /\ \A p \in DOMAIN disk : p[1] # cmd[t].arg

\* Such a delete has ended on a file of more than one batch, the last short.
C7_Witness ==
  \E t, u \in Threads :
    /\ cmd[t].op = "delete" /\ pc[t] = "done" /\ result[t] = "deleted" /\ all_ok[t]
    /\ cmd[u].op = "put" /\ result[u] = "completed" /\ fid[u] = cmd[t].arg
    /\ cmd[u].arg > batch_size

shared == <<files, parts, file_next_id, part_next_id, memory_usage, disk,
            file_ids_issued, part_ids_issued>>

\* C9: a get or delete of a file id that is not in the File Registry, or of a
\* file of status False, returns at its lookup; the lookup steps change none
\* of the registries, counters, memory_usage or stored parts, and a rejected
\* get or delete has reserved nothing and dispatched no batch.
C9_LookupErrors ==
  /\ [][\A t \in Threads :
         /\ (pc[t] \in {"get_exists", "get_status", "del_exists", "del_status"}
               /\ pc'[t] # pc[t])
              => UNCHANGED shared
         /\ (pc[t] \in {"get_exists", "del_exists"} /\ pc'[t] # pc[t]
               /\ cmd[t].arg \notin DOMAIN files)
              => pc'[t] = "done" /\ result'[t] = "not_found"
         /\ (pc[t] \in {"get_status", "del_status"} /\ pc'[t] # pc[t]
               /\ cmd[t].arg \in DOMAIN files /\ ~files[cmd[t].arg].status)
              => pc'[t] = "done" /\ result'[t] = "not_ready"]_vars
  /\ [](\A t \in Threads :
         result[t] \in {"not_found", "not_ready"}
           => /\ pc[t] = "done"
              /\ held[t] = 0 /\ ~locked_memory[t]
              /\ index[t] = 0 /\ written[t] = <<>> /\ del_result[t] = <<>>)

\* A get has been rejected for a file that is not ready and a delete for a
\* file id that is not there.
C9_Witness ==
  \E t, u \in Threads :
    /\ cmd[t].op = "get" /\ result[t] = "not_ready"
    /\ cmd[u].op = "delete" /\ result[u] = "not_found"

\* C10: while a put, get or delete has started and not returned, some handler
\* can take a step: no state is reached in which a started operation waits
\* for a lock or for memory that no running thread will ever give up.
C10_NoOperationBlocks ==
  (\E t \in Threads : Running(t)) => ENABLED (\E t \in Threads : Step(t))

\* The file f was put from an empty source.
EmptyFile(f) == \E u \in Threads : HasFileId(u) /\ fid[u] = f /\ cmd[u].arg = 0

\* C11: a put of an empty source that runs to its end registers the file with
\* part_count = 0, status True and an empty part sequence; a get that passed
\* the status check of such a file writes nothing, makes no reservation,
\* dispatches no load batch and completes.
C11_ZeroByte ==
  /\ [][\A t \in Threads :
         (cmd[t] = [op |-> "put", arg |-> 0] /\ pc[t] = "put_finish" /\ pc'[t] = "done")
           => /\ result'[t] = "completed"
              /\ files'[fid[t]].part_count = 0
              /\ files'[fid[t]].status
              /\ parts'[fid[t]] = <<>>]_vars
  /\ [](\A t \in Threads :
         (/\ cmd[t].op = "get" /\ EmptyFile(cmd[t].arg)
          /\ pc[t] \notin {"idle", "get_exists", "get_status"}
          /\ result[t] \notin {"not_found", "not_ready", "error"})
           => /\ pc[t] \in {"get_reserve", "done"}
              /\ pc[t] = "done" => result[t] = "completed"
              /\ written[t] = <<>> /\ index[t] = 0
              /\ held[t] = 0 /\ ~locked_memory[t])

\* A get of a file put from an empty source has completed, the file being
\* registered with no parts.
C11_Witness ==
  \E t \in Threads :
    /\ cmd[t].op = "get" /\ pc[t] = "done" /\ result[t] = "completed"
    /\ EmptyFile(cmd[t].arg)
    /\ cmd[t].arg \in DOMAIN files
    /\ files[cmd[t].arg].part_count = 0 /\ files[cmd[t].arg].status
    /\ parts[cmd[t].arg] = <<>>

\* C12: when a delete erases the entries of a batch, the entry of a part of
\* the batch is erased if and only if the remove of that part's path
\* succeeded: an entry whose remove failed stays in the sequence and an entry
\* whose remove succeeded does not.
C12_EraseIffRemoved ==
  [][\A t \in Threads :
       (pc[t] = "del_erase" /\ pc'[t] # "del_erase")
         => LET f == fid[t]
                b == DeleteBatch(parts[f], index[t])
            IN \A k \in 1..Len(del_result[t]) :
                 k <= Len(b) =>
                   ((\E q \in 1..Len(parts'[f]) : parts'[f][q].id = parts[f][b[k]].id)
                      <=> ~del_result[t][k])]_vars

\* C13: once a delete has set a file's status to False, a get of that file id
\* that then looks the file up does not pass: its status check answers
\* "not ready" while the file is registered, its existence check "not found"
\* once the file is gone, and the step reserves no memory and dispatches no
\* batch.  (A file id is never given to a second file.)
C13_DeleteBarsGets ==
  [][\A t \in Threads :
       (/\ cmd[t].op = "get" /\ DeleteRan(cmd[t].arg)
        /\ pc[t] \in {"get_exists", "get_status"} /\ pc'[t] # pc[t])
         => /\ pc'[t] \in {"get_status", "done"}
            /\ pc[t] = "get_status" => pc'[t] = "done"
            /\ (pc[t] = "get_status" /\ cmd[t].arg \in DOMAIN files)
                 => result'[t] = "not_ready"
            /\ (pc[t] = "get_exists" /\ cmd[t].arg \notin DOMAIN files)
                 => result'[t] = "not_found"
            /\ held'[t] = 0 /\ ~locked_memory'[t]
            /\ index'[t] = 0 /\ written'[t] = <<>>
            /\ memory_usage' = memory_usage]_vars

\* A get accepted after the delete of its file, the put being over, has been
\* answered "not ready" while the delete is still removing the file's parts.
C13_Witness ==
  \E t, u \in Threads :
    /\ u < t
    /\ cmd[t].op = "get" /\ pc[t] = "done" /\ result[t] = "not_ready"
    /\ cmd[u] = [op |-> "delete", arg |-> cmd[t].arg]
    /\ pc[u] \in {"del_remove", "del_erase"}
    /\ Len(parts[cmd[t].arg]) >= 1

\* C14: a put or get holds at most one batch reservation at any time: the
\* reservation of its next batch is granted only after the one of the batch
\* before has been released.
C14_ReservationOrdering ==
  \A t \in Threads : held[t] <= 1

\* The put that was given file id f has aborted.
AbortedFile(f) ==
  \E u \in Threads :
    /\ HasFileId(u) /\ fid[u] = f /\ pc[u] = "done"
    /\ result[u] \in {"failed", "part_id_lock_timeout"}

\* C15: the file of a put that aborted stays in the File Registry with status
\* False, and a delete of that file id that finds it there goes on to remove
\* it from the File Registry.
C15_PartialDeletable ==
  /\ [](\A f \in FileIds :
         (AbortedFile(f) /\ ~DeleteRan(f)) => (f \in DOMAIN files /\ ~files[f].status))
  /\ [][\A t \in Threads :
         (/\ cmd[t].op = "delete" /\ AbortedFile(cmd[t].arg)
          /\ pc[t] = "del_status" /\ pc'[t] # pc[t])
           => pc'[t] = "del_mark"]_vars

\* C16: while a delete is at batch index i of its way down from the highest
\* batch to batch 0, every part of a batch below i is in the file's sequence
\* at the position equal to its index.
C16_DeleteIndexStability ==
  \A t \in Threads :
    (/\ cmd[t].op = "delete" /\ pc[t] \in {"del_remove", "del_erase"}
     /\ fid[t] \in DOMAIN files)
      => LET f == fid[t]
         IN \A p \in 0..(Min(index[t] * batch_size, files[f].part_count) - 1) :
              /\ p + 1 <= Len(parts[f])
              /\ parts[f][p + 1].index = p

\* The labels at which a put or get is between a reserve and the release that
\* follows it, and the label of a handler that has returned.
OutsideCriticalSection ==
  {"put_partlock", "put_part", "put_save", "put_abort", "put_release",
   "put_finish", "put_except", "get_load", "get_abort", "get_release",
   "get_except", "done"}

\* C17: a put or get owns the monitor lock only inside a reserve or release
\* critical section: not while it works on a batch and not after it has
\* returned.
C17_MonitorHeldOnlyInside ==
  \A t \in Threads : pc[t] \in OutsideCriticalSection => mc_owner # t

\* A get that passed its status check has written part_count parts: those of
\* the source of its file, in order.
WroteAll(t) == written[t] = SourceOf(cmd[t].arg)

\* C18: a get that passed its status check and returned without reporting a
\* failure has written all the parts of the file in index order, also when a
\* delete of the same file id ran at the same time.
C18_NoSilentTruncation ==
  \A t \in Threads :
    (cmd[t].op = "get" /\ pc[t] = "done" /\ result[t] = "completed") => WroteAll(t)

\* The deletes of file f that passed the status check.
Teardowns(f) ==
  {t \in Threads :
     /\ cmd[t] = [op |-> "delete", arg |-> f]
     /\ \/ pc[t] \in {"del_mark", "del_remove", "del_erase", "del_finish"}
        \/ pc[t] = "done" /\ result[t] \in {"deleted", "failed"}}

\* C19: for every file id at most one delete passes the status check and
\* runs the removal batches; no delete ends in an internal error (a missing
\* registry key, a sequence position out of range).
C19_ExclusiveTeardown ==
  /\ \A f \in FileIds : Cardinality(Teardowns(f)) <= 1
  /\ \A t \in Threads :
       (cmd[t].op = "delete" /\ pc[t] = "done")
         => result[t] \in {"deleted", "not_ready", "not_found"}

\* C20: memory_usage is never negative and is part_size * batch_size times
\* the number of reservations granted and not released; no thread has given
\* back more reservations than it was granted; a fall of memory_usage is one
\* thread giving back one reservation it holds; no step of a delete or a list
\* changes memory_usage.
C20_ExactAccounting ==
  /\ [](/\ memory_usage >= 0
        /\ \A t \in Threads : held[t] >= 0
        /\ memory_usage = Reserved(MaxCommands))
  /\ [][memory_usage' < memory_usage =>
         \E t \in Threads :
           /\ held[t] >= 1 /\ held'[t] = held[t] - 1
           /\ memory_usage' = memory_usage - part_size * batch_size
           /\ \A u \in Threads \ {t} : held'[u] = held[u]]_vars
  /\ [][\A t \in Threads :
         (cmd[t].op \in {"delete", "list"} /\ pc'[t] # pc[t])
           => memory_usage' = memory_usage]_vars

\* A put holds two reservations, one of them kept over a release that timed
\* out, after another put gave its reservation back on the exit path of the
\* part id lock timeout.
C20_Witness ==
  \E t, u \in Threads :
    /\ held[t] = 2
    /\ pc[u] = "done" /\ result[u] = "part_id_lock_timeout" /\ held[u] = 0
    /\ memory_usage = 2 * part_size * batch_size
====
